---- MODULE Spec2Model ----
(***************************************************************************)
(* Overlord: the render session controller of the Electron main process    *)
(* (startRender / stopRender, the two polling loops, process management)   *)
(* together with the renderer-side start/stop handlers that call it.       *)
(*                                                                         *)
(* One action is one run-to-completion step of the JavaScript event loop:  *)
(* an async function is cut at each await.  ipcRenderer.invoke requests    *)
(* are delivered in the step of the UI event that sends them; the reply    *)
(* travels back in a step of its own.                                      *)
(***************************************************************************)
EXTENDS Integers, Sequences, FiniteSets, TLC

(***************************************************************************)
(* Bounds of the model.                                                    *)
(***************************************************************************)
MaxInstances == 2      \* largest value typed in the "instances" field
MaxStartCalls == 1     \* start-render invocations not yet answered
MaxStopCalls == 1      \* stop-render invocations not yet answered
MaxProcs == 2          \* DAZStudio.exe processes alive at once
MaxFiles == 4          \* .png files in one output directory
MaxTime == 3           \* last value of the clock
MaxTimers == 2         \* interval timers alive at once
MaxPaths == 2          \* animation paths, and gear paths, of one request
MaxGear == 3           \* gear paths of one request of the gear calculation
MaxEntries == 3        \* files chosen from the pool for one source directory
MaxConcurrent == 2     \* largest explicit maxConcurrent
MaxSpin == 2           \* iterations of the batch loop followed below index 0

(***************************************************************************)
(* Program constants.                                                      *)
(***************************************************************************)
defaultFrames == 1
defaultAngles == 16
maxFiles == 100
RmMaxRetries == 10

NULL == 0              \* null handle, null renderStartTime
NaN == -1              \* parseInt of an empty field
NoPath == <<>>         \* currentImagePath = null
NoCall == [fn |-> "", args |-> <<>>, ret |-> <<>>]

Dirs == {"d1", "d2"}   \* output directories the user can choose
RequestDirs == {"d1"}  \* the output directory of the start requests
IrayProcessNames == <<"iray_server.exe", "iray_server_worker.exe">>

(***************************************************************************)
(* Descriptor files on disk (contents after JSON.parse).  keys is the list *)
(* of scene.animations[k].keys.length, -1 for an entry without keys.       *)
(***************************************************************************)
NoFile == [exists |-> FALSE, parses |-> FALSE, angles |-> 0, hasScene |-> FALSE, keys |-> <<>>]

DescriptorStore(p) ==
    CASE p = "subject.duf" -> [exists |-> TRUE, parses |-> TRUE, angles |-> 1, hasScene |-> FALSE, keys |-> <<>>]
      [] p = "walk.duf"    -> [exists |-> TRUE, parses |-> TRUE, angles |-> 0, hasScene |-> TRUE, keys |-> <<1, 2, 3>>]
      [] p = "run.duf"     -> [exists |-> TRUE, parses |-> TRUE, angles |-> 0, hasScene |-> TRUE, keys |-> <<-1, 3>>]
      [] p = "pose.duf"    -> [exists |-> TRUE, parses |-> TRUE, angles |-> 0, hasScene |-> TRUE, keys |-> <<1>>]
      [] p = "broken.duf"  -> [exists |-> TRUE, parses |-> FALSE, angles |-> 0, hasScene |-> FALSE, keys |-> <<>>]
      [] p = "plain.duf"   -> [exists |-> TRUE, parses |-> TRUE, angles |-> 0, hasScene |-> FALSE, keys |-> <<>>]
      [] OTHER             -> NoFile

\* getFramesFromAnimationFile: the first keys array longer than 1 decides.
RECURSIVE FirstMultiFrame(_)
FirstMultiFrame(keys) ==
    IF keys = <<>> THEN defaultFrames
    ELSE IF Head(keys) > 1 THEN Head(keys)
    ELSE FirstMultiFrame(Tail(keys))

getFramesFromAnimationFile(p) ==
    LET f == DescriptorStore(p) IN
    IF p = "" \/ ~f.exists THEN defaultFrames
    ELSE IF ~f.parses THEN defaultFrames
    ELSE IF f.hasScene THEN FirstMultiFrame(f.keys)
    ELSE defaultFrames

\* Variant: a subject file that cannot be parsed yields no angle count.
getAnglesFromSubjectFile_NoCatch(p) ==
    LET f == DescriptorStore(p) IN
    IF p = "" \/ ~f.exists THEN defaultAngles
    ELSE IF ~f.parses THEN NaN
    ELSE IF f.angles > 0 THEN f.angles
    ELSE defaultAngles

getAnglesFromSubjectFile(p) ==
    LET f == DescriptorStore(p) IN
    IF p = "" \/ ~f.exists THEN defaultAngles
    ELSE IF ~f.parses THEN defaultAngles
    ELSE IF f.angles > 0 THEN f.angles
    ELSE defaultAngles

\* String.prototype.trim; " " stands for the paths made of white space only.
trim(p) == IF p = " " THEN "" ELSE p

RECURSIVE CountNonEmpty(_)
CountNonEmpty(s) ==
    IF s = <<>> THEN 0
    ELSE (IF trim(Head(s)) # "" THEN 1 ELSE 0) + CountNonEmpty(Tail(s))

RECURSIVE SumImages(_, _, _)
SumImages(anims, angles, gearCount) ==
    IF anims = <<>> THEN 0
    ELSE LET a == Head(anims)
             frames == IF a = "static" \/ trim(a) = "" THEN 1 ELSE getFramesFromAnimationFile(trim(a))
         IN  angles * frames * gearCount + SumImages(Tail(anims), angles, gearCount)

\* Variant: the count is doubled whatever the shadow flag says.
calculateTotalImages_AlwaysDoubled(subject, animations, gear, renderShadows) ==
    LET anims == IF animations = <<>> \/ animations[1] = "" THEN <<"static">> ELSE animations
        gearCount == IF gear = <<>> \/ trim(gear[1]) = "" THEN 1 ELSE CountNonEmpty(gear)
    IN  SumImages(anims, getAnglesFromSubjectFile(subject), gearCount) * 2

calculateTotalImages(subject, animations, gear, renderShadows) ==
    LET anims == IF animations = <<>> \/ animations[1] = "" THEN <<"static">> ELSE animations
        gearCount == IF gear = <<>> \/ trim(gear[1]) = "" THEN 1 ELSE CountNonEmpty(gear)
        angles == getAnglesFromSubjectFile(subject)
        total == SumImages(anims, angles, gearCount)
    IN  IF renderShadows THEN total * 2 ELSE total


(***************************************************************************)
(* State.                                                                  *)
(***************************************************************************)
VARIABLES
    app,                      \* "starting" (splash), "ready" (main window shown), "closed"
    isRendering,
    initialTotalImages,
    sessionStartImageCount,
    renderStartTime,
    periodicMonitoringHandle,
    fileWatcherHandle,
    currentImagePath,
    timers,                   \* live setInterval timers: [id, kind, dir]
    startCalls,               \* startRender invocations, one record per slot
    stopCalls,                \* stopRender invocations, one record per slot
    startBtnDisabled,         \* renderer: document.getElementById('start-btn').disabled
    uiAlert,                  \* renderer: alert() raised by the last step, "" if none
    dazRunning,               \* DAZStudio.exe processes alive
    irayRunning,              \* Iray Server process names alive
    irayDirExists,            \* %LOCALAPPDATA%/Overlord/IrayServer (holds results/admin)
    dirExists,                \* output directories on disk
    exeExists,                \* DAZStudio.exe is installed
    scriptExists,             \* scripts/masterRenderer.dsa is on disk
    images,                   \* images[d][k]: mtime of the k-th .png of directory d
    now,                      \* Date.now()
    fnCall,                   \* a direct call of a helper function: [fn, args, ret]
    zipper,                   \* a run of scripts/constructZipper.js (its own process)
    sent,                     \* webContents.send messages of the last step
    previewShows,             \* renderer: what the last preview notification left on screen
    lastCall                  \* history: the last controller call made: "start", "stop",
                              \* or "stopAgain" for a stop that follows a returned stop

vars == <<app, isRendering, initialTotalImages, sessionStartImageCount, renderStartTime,
          periodicMonitoringHandle, fileWatcherHandle, currentImagePath, timers,
          startCalls, stopCalls, startBtnDisabled, uiAlert, dazRunning, irayRunning,
          irayDirExists, dirExists, exeExists, scriptExists, images, now, fnCall, zipper, sent, previewShows,
          lastCall>>

sessionVars == <<isRendering, initialTotalImages, sessionStartImageCount, renderStartTime>>
timerVars == <<periodicMonitoringHandle, fileWatcherHandle, timers>>
procVars == <<dazRunning, irayRunning>>
fsVars == <<irayDirExists, dirExists, exeExists, scriptExists, images>>

mainWindow == app # "closed"

FreeStart == [pc |-> "free", n |-> 0, dir |-> "", i |-> 0, result |-> ""]
\* fromIdle and restarted are history: the session was idle when stop was called,
\* and the loops whose timer was installed since.
FreeStop == [pc |-> "free", killedCount |-> 0, cleanupFailed |-> FALSE,
             result |-> "", fromIdle |-> FALSE, restarted |-> {}]

StartSlots == 1..MaxStartCalls
StopSlots == 1..MaxStopCalls
StopInProgress(c) == stopCalls[c].pc \notin {"free", "returned"}

\* The session state of the controller: the code keeps isRendering only.
SessionState ==
    IF isRendering THEN "Rendering"
    ELSE IF \E c \in StopSlots : StopInProgress(c) THEN "Stopping"
    ELSE "Idle"

(***************************************************************************)
(* Output directory scanner.                                               *)
(***************************************************************************)
\* Directory entries: a .png file with its mtime, an entry whose statSync throws, a
\* subdirectory whose readdirSync throws.
PngEntry(m) == [kind |-> "png", mtime |-> m]
NoStatEntry == [kind |-> "noStat", mtime |-> 0]
LockedDirEntry == [kind |-> "lockedDir", mtime |-> 0]

\* fs.readdirSync(dir): the entries in listing order, none when the directory is missing.
listing(d) == IF d \in Dirs /\ dirExists[d] THEN images[d] ELSE <<>>

\* The index of the first entry whose stat throws, Len + 1 when there is none.
FirstNoStat(es) ==
    IF \E k \in 1..Len(es) : es[k].kind = "noStat"
    THEN CHOOSE k \in 1..Len(es) : es[k].kind = "noStat" /\ \A j \in 1..(k - 1) : es[j].kind # "noStat"
    ELSE Len(es) + 1

\* walkDir of findNewestImage and calculateAverageRenderTime: statSync sits in the try
\* block around the whole loop, so the first failing entry ends the walk of the
\* directory; an unreadable subdirectory adds nothing.  The .png files visited, in order.
readdir(d) ==
    LET es == listing(d)
        visited == [k \in 1..(FirstNoStat(es) - 1) |->
                        [path |-> <<d, k>>, mtime |-> es[k].mtime, kind |-> es[k].kind]]
        pngs == SelectSeq(visited, LAMBDA e : e.kind = "png")
    IN  [k \in 1..Len(pngs) |-> [path |-> pngs[k].path, mtime |-> pngs[k].mtime]]

\* walkDir of countImagesInDirectory: statSync has a try block of its own, a failing
\* entry is skipped.
countImagesInDirectory(d) ==
    LET es == listing(d) IN Cardinality({k \in 1..Len(es) : es[k].kind = "png"})

\* Array.prototype.sort((a, b) => b.mtime - a.mtime): stable, newest first.
SortDesc(s) ==
    LET n == Len(s)
        rank == [k \in 1..n |->
                    Cardinality({j \in 1..n : \/ s[j].mtime > s[k].mtime
                                              \/ (s[j].mtime = s[k].mtime /\ j < k)}) + 1]
        at == [r \in 1..n |-> CHOOSE k \in 1..n : rank[k] = r]
    IN  [r \in 1..n |-> s[at[r]]]

Slice(s, k) == SubSeq(s, 1, IF Len(s) < k THEN Len(s) ELSE k)

\* Variant: the buffer is cut to maxFiles without being sorted first.
RECURSIVE walkDirNewest_NoSort(_, _)
walkDirNewest_NoSort(files, buf) ==
    IF Len(buf) + Len(files) <= maxFiles * 2 THEN buf \o files
    ELSE LET pushes == maxFiles * 2 + 1 - Len(buf)
             pushed == buf \o SubSeq(files, 1, pushes)
         IN  walkDirNewest_NoSort(SubSeq(files, pushes + 1, Len(files)), Slice(pushed, maxFiles))

\* The loop of walkDir over the files visited, buf being imageFiles: each file is
\* pushed, and the push that makes the buffer longer than maxFiles * 2 is followed by
\* sort and splice(maxFiles).  Computed from one splice to the next.
RECURSIVE walkDirNewest(_, _)
walkDirNewest(files, buf) ==
    IF Len(buf) + Len(files) <= maxFiles * 2 THEN buf \o files
    ELSE LET pushes == maxFiles * 2 + 1 - Len(buf)
             pushed == buf \o SubSeq(files, 1, pushes)
         IN  walkDirNewest(SubSeq(files, pushes + 1, Len(files)), Slice(SortDesc(pushed), maxFiles))

\* Variant: the result is not cut to maxFiles.
findNewestImage_NoLimit(d) ==
    LET sorted == SortDesc(walkDirNewest(readdir(d), <<>>))
    IN  [k \in 1..Len(sorted) |-> sorted[k].path]

findNewestImage(d) ==
    LET sorted == Slice(SortDesc(walkDirNewest(readdir(d), <<>>)), maxFiles)
    IN  [k \in 1..Len(sorted) |-> sorted[k].path]

(***************************************************************************)
(* Trailing-window render time estimate.                                   *)
(***************************************************************************)
avgWindow == 10

RECURSIVE SelectSeq2(_, _)
SelectSeq2(s, start) ==
    IF s = <<>> THEN <<>>
    ELSE IF start # NULL /\ Head(s).mtime < start THEN SelectSeq2(Tail(s), start)
    ELSE <<Head(s)>> \o SelectSeq2(Tail(s), start)

RECURSIVE PositiveIntervals(_)
PositiveIntervals(s) ==
    IF Len(s) < 2 THEN <<>>
    ELSE LET interval == s[1].mtime - s[2].mtime
         IN  (IF interval > 0 THEN <<interval>> ELSE <<>>) \o PositiveIntervals(Tail(s))

RECURSIVE SumSeq(_)
SumSeq(s) == IF s = <<>> THEN 0 ELSE Head(s) + SumSeq(Tail(s))

\* Variant: files older than the render start are kept.
calculateAverageRenderTime_NoStartFilter(d) ==
    IF d = "" \/ ~(d \in Dirs /\ dirExists[d]) THEN <<>>
    ELSE LET recentFiles == Slice(SortDesc(readdir(d)), avgWindow)
             intervals == PositiveIntervals(recentFiles)
         IN  IF Len(recentFiles) < 2 \/ intervals = <<>> THEN <<>>
             ELSE <<SumSeq(intervals), Len(intervals)>>

\* null is <<>>; an average is the fraction <<sum of intervals, number of intervals>>.
calculateAverageRenderTime(d) ==
    IF d = "" \/ ~(d \in Dirs /\ dirExists[d]) THEN <<>>
    ELSE LET filesWithTimes == SelectSeq2(readdir(d), renderStartTime)
             recentFiles == Slice(SortDesc(filesWithTimes), avgWindow)
             intervals == PositiveIntervals(recentFiles)
         IN  IF Len(filesWithTimes) < 2 THEN <<>>
             ELSE IF Len(recentFiles) < 2 THEN <<>>
             ELSE IF intervals = <<>> THEN <<>>
             ELSE <<SumSeq(intervals), Len(intervals)>>


\* History: a timer of this kind was installed while stop calls were in progress.
NoteRestart(calls, kind) ==
    [c \in StopSlots |-> IF calls[c].pc \notin {"free", "returned"}
                         THEN [calls[c] EXCEPT !.restarted = @ \cup {kind}]
                         ELSE calls[c]]

(***************************************************************************)
(* Interval timers.  A timer state is the pair of handle variables and the *)
(* set of timers the event loop still holds.                               *)
(***************************************************************************)
TimerState == [file |-> fileWatcherHandle, periodic |-> periodicMonitoringHandle,
               live |-> timers]

FreshId(live) == CHOOSE i \in 1..(Cardinality(live) + 1) : \A t \in live : t.id # i

clearInterval(live, h) == {t \in live : t.id # h}

setInterval(live, kind, dir) == live \cup {[id |-> FreshId(live), kind |-> kind, dir |-> dir]}

stopFileMonitoring(ts) ==
    IF ts.file # NULL
    THEN [ts EXCEPT !.live = clearInterval(@, ts.file), !.file = NULL]
    ELSE ts

startFileMonitoring(ts, directory) ==
    LET s1 == stopFileMonitoring(ts)
    IN  [s1 EXCEPT !.live = setInterval(@, "file", directory), !.file = FreshId(s1.live)]

stopContinuousImageMonitoring(ts) ==
    IF ts.periodic # NULL
    THEN [ts EXCEPT !.live = clearInterval(@, ts.periodic), !.periodic = NULL]
    ELSE ts

\* Variant: the new preview timer is installed without clearing the previous one.
restartPeriodicTimer_NoClear(ts, outputDirectory) ==
    [ts EXCEPT !.live = setInterval(@, "preview", outputDirectory),
               !.periodic = FreshId(ts.live)]

\* The timer part of startContinuousImageMonitoring (after the immediate check).
restartPeriodicTimer(ts, outputDirectory) ==
    LET live1 == IF ts.periodic # NULL THEN clearInterval(ts.live, ts.periodic) ELSE ts.live
    IN  [ts EXCEPT !.live = setInterval(live1, "preview", outputDirectory),
                   !.periodic = FreshId(live1)]

SetTimers(ts) ==
    /\ Cardinality(ts.live) <= MaxTimers
    /\ timers' = ts.live
    /\ fileWatcherHandle' = ts.file
    /\ periodicMonitoringHandle' = ts.periodic

(***************************************************************************)
(* Polling callbacks.  Each returns [cur, out]: the new currentImagePath   *)
(* and the messages sent to the renderer.                                  *)
(***************************************************************************)
ImageUpdated(p) == [type |-> "image-updated", path |-> p]
NoImagesFound == [type |-> "no-images-found"]

\* The preview notifications among the messages of a step.
Notices(msgs) == SelectSeq(msgs, LAMBDA m : m.type \in {"image-updated", "no-images-found"})

\* webContents.send of the messages of a step; the renderer's 'image-updated' and
\* 'no-images-found' listeners replace the content of the preview pane.
Send(msgs) ==
    /\ sent' = msgs
    /\ previewShows' = IF Notices(msgs) = <<>> THEN previewShows
                       ELSE Notices(msgs)[Len(Notices(msgs))].type

\* Variant: the newest image is announced on every poll that finds one.
newestImageStep_Always(cur, directory) ==
    LET found == findNewestImage(directory)
    IN  IF found # <<>>
        THEN [cur |-> found[1], out |-> IF mainWindow THEN <<ImageUpdated(found[1])>> ELSE <<>>]
        ELSE [cur |-> cur, out |-> <<>>]

\* The newest-image part shared by both loops (the file loop has no else branch).  A
\* callback runs to completion: the statSync of the image it has just listed succeeds.
newestImageStep(cur, directory) ==
    LET found == findNewestImage(directory)
    IN  IF found # <<>> /\ found[1] # cur
        THEN [cur |-> found[1], out |-> IF mainWindow THEN <<ImageUpdated(found[1])>> ELSE <<>>]
        ELSE [cur |-> cur, out |-> <<>>]

\* Variant: 'no-images-found' is sent on every poll that finds nothing.
checkForNewestImage_Repeats(cur, outputDirectory) ==
    IF ~(outputDirectory \in Dirs /\ dirExists[outputDirectory])
       \/ findNewestImage(outputDirectory) = <<>>
    THEN [cur |-> NoPath, out |-> IF mainWindow THEN <<NoImagesFound>> ELSE <<>>]
    ELSE newestImageStep(cur, outputDirectory)

checkForNewestImage(cur, outputDirectory) ==
    IF ~(outputDirectory \in Dirs /\ dirExists[outputDirectory])
    THEN IF cur # NoPath /\ mainWindow
         THEN [cur |-> NoPath, out |-> <<NoImagesFound>>]
         ELSE [cur |-> cur, out |-> <<>>]
    ELSE IF findNewestImage(outputDirectory) # <<>>
         THEN newestImageStep(cur, outputDirectory)
         ELSE IF cur # NoPath
              THEN [cur |-> NoPath, out |-> IF mainWindow THEN <<NoImagesFound>> ELSE <<>>]
              ELSE [cur |-> cur, out |-> <<>>]

Max0(x) == IF x > 0 THEN x ELSE 0

\* estimatedCompletion: "Complete", "Calculating..." or a time, kept as the
\* fraction num/den = Date.now() + remaining * avgRenderTime.
estimatedCompletion(remaining, directory) ==
    IF remaining > 0
    THEN LET avg == calculateAverageRenderTime(directory)
         IN  IF avg # <<>> /\ avg[1] > 0
             THEN [kind |-> "time", num |-> now * avg[2] + remaining * avg[1], den |-> avg[2]]
             ELSE [kind |-> "Calculating...", num |-> 0, den |-> 1]
    ELSE [kind |-> "Complete", num |-> 0, den |-> 1]

\* The render-progress sample; progressPercent is percentNum / percentDen.
renderProgress(directory) ==
    LET renderedCount == countImagesInDirectory(directory)
        remaining == Max0(initialTotalImages - renderedCount)
    IN  [type |-> "render-progress",
         totalImages |-> initialTotalImages,
         renderedCount |-> renderedCount,
         sessionCount |-> Max0(renderedCount - sessionStartImageCount),
         remaining |-> remaining,
         percentNum |-> IF initialTotalImages > 0 THEN renderedCount * 100 ELSE 0,
         percentDen |-> IF initialTotalImages > 0 THEN initialTotalImages ELSE 1,
         estimatedCompletion |-> estimatedCompletion(remaining, directory)]

\* ipcRenderer.on('render-progress') of the renderer: the Start Render button is
\* enabled again by a sample whose isComplete is truthy.
isComplete(progressData) == "isComplete" \in DOMAIN progressData /\ progressData.isComplete

onRenderProgress(disabled, msgs) ==
    IF \E k \in 1..Len(msgs) : msgs[k].type = "render-progress" /\ isComplete(msgs[k])
    THEN FALSE ELSE disabled

\* setInterval callback of startFileMonitoring.
FileWatcherTick(t) ==
    /\ app # "closed"
    /\ t \in timers /\ t.kind = "file"
    /\ LET r == newestImageStep(currentImagePath, t.dir)
       IN  /\ currentImagePath' = r.cur
           /\ Send(r.out \o (IF isRendering /\ mainWindow THEN <<renderProgress(t.dir)>> ELSE <<>>))
           /\ startBtnDisabled' = onRenderProgress(startBtnDisabled,
                    IF isRendering /\ mainWindow THEN <<renderProgress(t.dir)>> ELSE <<>>)
    /\ uiAlert' = ""
    /\ UNCHANGED <<app, sessionVars, timerVars, startCalls, stopCalls, procVars,
                   fsVars, now, fnCall, zipper, lastCall>>

\* setInterval callback of startContinuousImageMonitoring.
PeriodicTick(t) ==
    /\ app # "closed"
    /\ t \in timers /\ t.kind = "preview"
    /\ LET r == checkForNewestImage(currentImagePath, t.dir)
       IN  /\ currentImagePath' = r.cur
           /\ Send(r.out)
    /\ uiAlert' = ""
    /\ UNCHANGED <<app, sessionVars, timerVars, startCalls, stopCalls, startBtnDisabled, procVars,
                   fsVars, now, fnCall, zipper, lastCall>>

\* startContinuousImageMonitoring(outputDirectory) as a whole.
startContinuousImageMonitoring(outputDirectory) ==
    IF outputDirectory = ""
    THEN UNCHANGED <<currentImagePath, timerVars>> /\ Send(<<>>)
    ELSE LET r == checkForNewestImage(currentImagePath, outputDirectory)
         IN  /\ currentImagePath' = r.cur
             /\ Send(r.out)
             /\ SetTimers(restartPeriodicTimer(TimerState, outputDirectory))

\* The ready-to-show timeout of createWindow: dir is the saved output_directory.
WindowReady(dir) ==
    /\ app = "starting"
    /\ app' = "ready"
    /\ startContinuousImageMonitoring(dir)
    /\ uiAlert' = ""
    /\ UNCHANGED <<sessionVars, startCalls, stopCalls, startBtnDisabled, procVars, fsVars, now, fnCall, zipper, lastCall>>

\* ipcMain.handle('save-settings'), sent by the renderer's saveSettings().
SaveSettings(dir) ==
    /\ app = "ready"
    /\ startContinuousImageMonitoring(dir)
    /\ uiAlert' = ""
    /\ stopCalls' = IF dir # "" THEN NoteRestart(stopCalls, "preview") ELSE stopCalls
    /\ UNCHANGED <<app, sessionVars, startCalls, startBtnDisabled, procVars, fsVars, now, fnCall, zipper, lastCall>>

\* mainWindow.on('close'), then window-all-closed: app.quit().  The handler stops both
\* loops; the renderer and every pending call end with the process.
WindowClose ==
    /\ app = "ready"
    /\ app' = "closed"
    /\ SetTimers(stopContinuousImageMonitoring(stopFileMonitoring(TimerState)))
    /\ startCalls' = [c \in StartSlots |-> FreeStart]
    /\ stopCalls' = [c \in StopSlots |-> FreeStop]
    /\ startBtnDisabled' = FALSE
    /\ Send(<<>>) /\ uiAlert' = ""
    /\ UNCHANGED <<sessionVars, currentImagePath, procVars, fsVars, now, fnCall, zipper, lastCall>>


(***************************************************************************)
(* startRender (main process).                                             *)
(***************************************************************************)
\* What getSettings() can read from the form: complete settings for the given output
\* directories, and settings with one required field left empty.
ValidSettings(dirs) ==
    [subject : {"subject.duf"},
     animations : {<<"walk.duf">>},
     gear : {<<>>},
     render_shadows : BOOLEAN,
     output_directory : dirs,
     number_of_instances : 0..MaxInstances]      \* 0: the field is empty

InvalidSettings ==
    LET ok == [subject |-> "subject.duf", animations |-> <<"walk.duf">>, gear |-> <<>>,
               render_shadows |-> FALSE, output_directory |-> "d1", number_of_instances |-> 1]
    IN  {[ok EXCEPT !.subject = ""], [ok EXCEPT !.animations = <<>>],
         [ok EXCEPT !.output_directory = ""]}

parseInt(field) == IF field = 0 THEN NaN ELSE field

Less(i, n) == n # NaN /\ i < n

\* A guard that looks at the progress loop instead of the flag.
AlreadyRunning_Timer == fileWatcherHandle # NULL

\* No guard at all.
AlreadyRunning_Never == FALSE

\* The guard at the head of startRender.
AlreadyRunning == isRendering

\* A check that forgets the render script.
ToolsMissing_ExeOnly == ~exeExists

\* The two fs.existsSync checks before the launch loop.
ToolsMissing == ~exeExists \/ ~scriptExists

\* spawn(dazExecutablePath, ...), detached.
spawn(procs) == procs + 1

\* The value startRender returns or throws, on its way to the renderer.
Reply(result) == [FreeStart EXCEPT !.pc = "replying", !.result = result]

\* A launch loop that waits after every launch, the last one included.
launchStep_DelayAfterLast(call, numInstances) ==
    IF Less(call.i, numInstances)
    THEN [spawned |-> 1, call |-> [call EXCEPT !.pc = "delay", !.i = @ + 1]]
    ELSE [spawned |-> 0, call |-> [Reply("ok") EXCEPT !.n = numInstances]]

\* The launch loop from instance i on, up to its next await: [spawned, call], the
\* number of processes spawned and the record of the call afterwards (a successful
\* call keeps numInstances until its reply is delivered).
launchStep(call, numInstances) ==
    IF Less(call.i, numInstances)
    THEN IF Less(call.i, numInstances - 1)
         THEN [spawned |-> 1, call |-> [call EXCEPT !.pc = "delay", !.i = @ + 1]]
         ELSE [spawned |-> 1, call |-> [Reply("ok") EXCEPT !.n = numInstances]]
    ELSE [spawned |-> 0, call |-> [Reply("ok") EXCEPT !.n = numInstances]]

\* Effects of a launch step on processes and timers.
Launch(c, directory, step) ==
    /\ startCalls' = [startCalls EXCEPT ![c] = step.call]
    /\ IF step.spawned > 0
       THEN dazRunning < MaxProcs /\ dazRunning' = spawn(dazRunning)
       ELSE dazRunning' = dazRunning
    /\ IF step.call.pc = "replying"
       THEN /\ SetTimers(startFileMonitoring(TimerState, directory))
            /\ stopCalls' = NoteRestart(stopCalls, "file")
       ELSE UNCHANGED <<timerVars, stopCalls>>

\* startRender up to its first await, called by ipcMain.handle('start-render').
startRender(c, settings, mkdirOk) ==
    LET dir == settings.output_directory
        call == [pc |-> "delay", n |-> parseInt(settings.number_of_instances),
                 dir |-> dir, i |-> 0, result |-> ""]
    IN
    IF AlreadyRunning
    THEN /\ startCalls' = [startCalls EXCEPT ![c] = Reply("AlreadyRunning")]
         /\ UNCHANGED <<sessionVars, timerVars, stopCalls, procVars, fsVars>>
    ELSE
    /\ isRendering' = TRUE
    /\ renderStartTime' = now
    /\ initialTotalImages' = calculateTotalImages(settings.subject, settings.animations,
                                                  settings.gear, settings.render_shadows)
    /\ sessionStartImageCount' = countImagesInDirectory(dir)
    /\ irayDirExists' = TRUE
    /\ UNCHANGED <<images, irayRunning, exeExists, scriptExists>>
    /\ IF ~(dir \in Dirs /\ dirExists[dir]) /\ (dir \notin Dirs \/ ~mkdirOk)
       THEN \* fs.mkdirSync(finalOutputDir) throws
            /\ startCalls' = [startCalls EXCEPT ![c] = Reply("Exception")]
            /\ UNCHANGED <<dirExists, timerVars, stopCalls, dazRunning>>
       ELSE /\ dirExists' = [dirExists EXCEPT ![dir] = TRUE]
            /\ IF ToolsMissing
               THEN /\ startCalls' = [startCalls EXCEPT ![c] = Reply("ExecutableNotFound")]
                    /\ UNCHANGED <<timerVars, stopCalls, dazRunning>>
               ELSE Launch(c, dir, launchStep(call, call.n))

\* startRender after the 5 s delay between two launches.
StartRenderResume(c) ==
    /\ app # "closed"
    /\ startCalls[c].pc = "delay"
    /\ Launch(c, startCalls[c].dir, launchStep(startCalls[c], startCalls[c].n))
    /\ Send(<<>>) /\ uiAlert' = ""
    /\ UNCHANGED <<app, sessionVars, currentImagePath, startBtnDisabled, irayRunning, fsVars, now, fnCall, zipper,
                   lastCall>>

(***************************************************************************)
(* Renderer: the Start Render button.                                      *)
(***************************************************************************)
\* A validation that forgets the output directory.
validate_NoDirCheck(settings) ==
    IF settings.subject = "" THEN "Please select a subject file"
    ELSE IF settings.animations = <<>> THEN "Please select at least one animation"
    ELSE ""

\* The alert of the renderer's validation, "" when the settings pass.
validate(settings) ==
    IF settings.subject = "" THEN "Please select a subject file"
    ELSE IF settings.animations = <<>> THEN "Please select at least one animation"
    ELSE IF settings.output_directory = "" THEN "Please select an output directory"
    ELSE ""

FirstFree(calls, slots) == CHOOSE c \in slots : calls[c].pc = "free" /\ \A b \in slots : calls[b].pc = "free" => c <= b

UiStartRender(settings, mkdirOk) ==
    /\ app = "ready"
    /\ ~startBtnDisabled
    /\ Send(<<>>)
    /\ uiAlert' = validate(settings)
    /\ IF validate(settings) # ""
       THEN UNCHANGED <<app, sessionVars, timerVars, currentImagePath, startCalls, stopCalls,
                        startBtnDisabled, procVars, fsVars, now, fnCall, zipper, lastCall>>
       ELSE /\ \E c \in StartSlots : startCalls[c].pc = "free"
            /\ startBtnDisabled' = TRUE
            /\ lastCall' = "start"
            /\ startRender(FirstFree(startCalls, StartSlots), settings, mkdirOk)
            /\ UNCHANGED <<app, currentImagePath, now, fnCall, zipper>>

\* The reply of ipcRenderer.invoke('start-render') reaches the renderer.
UiStartReply(c) ==
    /\ app # "closed"
    /\ startCalls[c].pc = "replying"
    /\ startCalls' = [startCalls EXCEPT ![c] = FreeStart]
    /\ IF startCalls[c].result # "ok"
       THEN /\ uiAlert' = "Failed to start render"
            /\ startBtnDisabled' = FALSE
       ELSE /\ uiAlert' = ""
            /\ UNCHANGED startBtnDisabled
    /\ Send(<<>>)
    /\ UNCHANGED <<app, sessionVars, timerVars, currentImagePath, stopCalls, procVars, fsVars,
                   now, fnCall, zipper, lastCall>>


(***************************************************************************)
(* stopRender (main process) and process management.                       *)
(***************************************************************************)
\* A stopRender that cancels nothing.
stopRenderTimers_None(ts) == ts

\* A stopRender that cancels the preview loop as well.
stopRenderTimers_Both(ts) == stopContinuousImageMonitoring(stopFileMonitoring(ts))

\* The timers stopRender cancels.
stopRenderTimers(ts) == stopFileMonitoring(ts)

\* A taskkill of the workers that terminates nothing.
taskkillDaz_Skip(procs) == [left |-> procs, killed |-> 0]

\* taskkill /F /IM of one process name: [left, killed].
taskkillDaz(procs) == [left |-> 0, killed |-> IF procs > 0 THEN 1 ELSE 0]

taskkillIray(running, name) ==
    [left |-> running \ {name}, killed |-> IF name \in running THEN 1 ELSE 0]

\* A cleanup without the try/catch: the error of rmSync reaches the caller.
cleanIrayServerDirectory_Throws(exists, locked) ==
    IF ~exists \/ locked <= RmMaxRetries
    THEN [exists |-> FALSE, failed |-> FALSE, thrown |-> FALSE]
    ELSE [exists |-> TRUE, failed |-> TRUE, thrown |-> TRUE]

\* fs.rmSync(irayServerDir, {recursive, force, maxRetries: 10, retryDelay: 1000}) inside
\* its try/catch; locked is the number of leading attempts that find the tree locked.
cleanIrayServerDirectory(exists, locked) ==
    IF ~exists THEN [exists |-> FALSE, failed |-> FALSE, thrown |-> FALSE]
    ELSE IF locked <= RmMaxRetries
         THEN [exists |-> FALSE, failed |-> FALSE, thrown |-> FALSE]
         ELSE [exists |-> TRUE, failed |-> TRUE, thrown |-> FALSE]

\* The tail of stopIrayServer, stopAllRenderProcesses and stopRender: cleanup and return.
CleanupAndReturn(c, call) ==
    \E locked \in {0, RmMaxRetries, RmMaxRetries + 1} :
        LET r == cleanIrayServerDirectory(irayDirExists, locked)
        IN  /\ irayDirExists' = r.exists
            /\ stopCalls' = [stopCalls EXCEPT ![c] =
                    [call EXCEPT !.pc = "returned", !.cleanupFailed = r.failed,
                                 !.killedCount = 0, !.fromIdle = FALSE, !.restarted = {},
                                 !.result = IF r.thrown THEN "error" ELSE "success"]]

\* stopRender up to its first await (taskkill of DAZStudio.exe is running).
stopRender(c) ==
    /\ isRendering' = FALSE
    /\ SetTimers(stopRenderTimers(TimerState))
    /\ stopCalls' = [stopCalls EXCEPT ![c] =
            [FreeStop EXCEPT !.pc = "killDaz", !.fromIdle = (SessionState = "Idle")]]

UiStopRender ==
    /\ app = "ready"
    /\ \E c \in StopSlots : stopCalls[c].pc = "free"
    /\ stopRender(FirstFree(stopCalls, StopSlots))
    /\ lastCall' = IF lastCall \in {"stop", "stopAgain"} /\ SessionState # "Stopping"
                   THEN "stopAgain" ELSE "stop"
    /\ Send(<<>>) /\ uiAlert' = ""
    /\ UNCHANGED <<app, initialTotalImages, sessionStartImageCount, renderStartTime,
                   currentImagePath, startCalls, startBtnDisabled, procVars, fsVars, now, fnCall, zipper>>

\* killProcessesByName(DAZ_STUDIO_PROCESSES) completes; stopIrayServer begins.
StopKillDaz(c) ==
    /\ app # "closed"
    /\ stopCalls[c].pc = "killDaz"
    /\ LET r == taskkillDaz(dazRunning)
       IN  /\ dazRunning' = r.left
           /\ stopCalls' = [stopCalls EXCEPT ![c].pc = "killIray1"]
    /\ Send(<<>>) /\ uiAlert' = ""
    /\ UNCHANGED <<app, sessionVars, timerVars, currentImagePath, startCalls, startBtnDisabled,
                   irayRunning, fsVars, now, fnCall, zipper, lastCall>>

\* taskkill of iray_server.exe completes.
StopKillIray1(c) ==
    /\ app # "closed"
    /\ stopCalls[c].pc = "killIray1"
    /\ LET r == taskkillIray(irayRunning, IrayProcessNames[1])
       IN  /\ irayRunning' = r.left
           /\ stopCalls' = [stopCalls EXCEPT ![c].pc = "killIray2", ![c].killedCount = @ + r.killed]
    /\ Send(<<>>) /\ uiAlert' = ""
    /\ UNCHANGED <<app, sessionVars, timerVars, currentImagePath, startCalls, startBtnDisabled,
                   dazRunning, fsVars, now, fnCall, zipper, lastCall>>

\* taskkill of iray_server_worker.exe completes: wait 2 s if anything was killed,
\* otherwise clean the directory and return.
StopKillIray2(c) ==
    /\ app # "closed"
    /\ stopCalls[c].pc = "killIray2"
    /\ LET r == taskkillIray(irayRunning, IrayProcessNames[2])
           call == [stopCalls[c] EXCEPT !.killedCount = @ + r.killed]
       IN  /\ irayRunning' = r.left
           /\ IF call.killedCount > 0
              THEN /\ stopCalls' = [stopCalls EXCEPT ![c] = [call EXCEPT !.pc = "wait"]]
                   /\ UNCHANGED irayDirExists
              ELSE CleanupAndReturn(c, call)
    /\ Send(<<>>) /\ uiAlert' = ""
    /\ UNCHANGED <<app, sessionVars, timerVars, currentImagePath, startCalls, startBtnDisabled,
                   dazRunning, dirExists, exeExists, scriptExists, images, now, fnCall, zipper, lastCall>>

\* After the 2 s wait of stopIrayServer.
StopAfterWait(c) ==
    /\ app # "closed"
    /\ stopCalls[c].pc = "wait"
    /\ CleanupAndReturn(c, stopCalls[c])
    /\ Send(<<>>) /\ uiAlert' = ""
    /\ UNCHANGED <<app, sessionVars, timerVars, currentImagePath, startCalls, startBtnDisabled,
                   procVars, dirExists, exeExists, scriptExists, images, now, fnCall, zipper, lastCall>>

\* The reply of ipcRenderer.invoke('stop-render') reaches the renderer.
UiStopReply(c) ==
    /\ app # "closed"
    /\ stopCalls[c].pc = "returned"
    /\ stopCalls' = [stopCalls EXCEPT ![c] = FreeStop]
    /\ startBtnDisabled' = FALSE
    /\ Send(<<>>) /\ uiAlert' = ""
    /\ UNCHANGED <<app, sessionVars, timerVars, currentImagePath, startCalls,
                   procVars, fsVars, now, fnCall, zipper, lastCall>>

(***************************************************************************)
(* Environment: the external renderer, the user's files, the clock.        *)
(***************************************************************************)
EnvFrame == UNCHANGED <<app, sessionVars, timerVars, currentImagePath, startCalls, stopCalls,
                        startBtnDisabled, lastCall, fnCall, zipper>>

\* A worker (or anyone) writes a .png into an output directory.
ImageWritten(d) ==
    /\ app # "closed"
    /\ dirExists[d] /\ Len(images[d]) < MaxFiles
    /\ images' = [images EXCEPT ![d] = Append(@, PngEntry(now))]
    /\ Send(<<>>) /\ uiAlert' = ""
    /\ EnvFrame /\ UNCHANGED <<procVars, irayDirExists, dirExists, exeExists, scriptExists, now>>

\* An entry appears in an output directory that statSync cannot read.
EntryUnreadable(d) ==
    /\ app # "closed"
    /\ dirExists[d] /\ Len(images[d]) < MaxFiles
    /\ images' = [images EXCEPT ![d] = Append(@, NoStatEntry)]
    /\ Send(<<>>) /\ uiAlert' = ""
    /\ EnvFrame /\ UNCHANGED <<procVars, irayDirExists, dirExists, exeExists, scriptExists, now>>

\* The output directory is deleted.
DirRemoved(d) ==
    /\ app # "closed"
    /\ dirExists[d]
    /\ dirExists' = [dirExists EXCEPT ![d] = FALSE]
    /\ images' = [images EXCEPT ![d] = <<>>]
    /\ Send(<<>>) /\ uiAlert' = ""
    /\ EnvFrame /\ UNCHANGED <<procVars, irayDirExists, exeExists, scriptExists, now>>

\* A DAZ Studio worker exits.
WorkerExit ==
    /\ app # "closed"
    /\ dazRunning > 0
    /\ dazRunning' = dazRunning - 1
    /\ Send(<<>>) /\ uiAlert' = ""
    /\ EnvFrame /\ UNCHANGED <<irayRunning, fsVars, now>>

\* The DAZ script starts the Iray Server (the server and its worker), which uses its
\* working directory.
IrayStarted ==
    /\ app # "closed"
    /\ dazRunning > 0 /\ irayRunning = {}
    /\ irayRunning' = {IrayProcessNames[1], IrayProcessNames[2]}
    /\ irayDirExists' = TRUE
    /\ Send(<<>>) /\ uiAlert' = ""
    /\ EnvFrame /\ UNCHANGED <<dazRunning, dirExists, exeExists, scriptExists, images, now>>

ClockTick ==
    /\ app # "closed"
    /\ now < MaxTime
    /\ now' = now + 1
    /\ Send(<<>>) /\ uiAlert' = ""
    /\ EnvFrame /\ UNCHANGED <<procVars, fsVars>>

(***************************************************************************)
(* scripts/constructZipper.js.  A file name is the sequence of its         *)
(* characters; null is <<>>.                                                *)
(***************************************************************************)
Digits == {"0", "1", "2", "3", "4", "5", "6", "7", "8", "9"}
unknown == <<"u", "n", "k", "n", "o", "w", "n">>

\* String.prototype.indexOf and lastIndexOf, 1-based, 0 when the character is absent.
IndexOf(s, ch) ==
    IF \E k \in 1..Len(s) : s[k] = ch
    THEN CHOOSE k \in 1..Len(s) : s[k] = ch /\ \A j \in 1..(k - 1) : s[j] # ch
    ELSE 0

LastIndexOf(s, ch) ==
    IF \E k \in 1..Len(s) : s[k] = ch
    THEN CHOOSE k \in 1..Len(s) : s[k] = ch /\ \A j \in (k + 1)..Len(s) : s[j] # ch
    ELSE 0

From(s, k) == SubSeq(s, k, Len(s))

\* path.parse(filename).name: the name without its last extension.
stemOf(filename) ==
    LET dot == LastIndexOf(filename, ".")
    IN  IF dot > 1 THEN SubSeq(filename, 1, dot - 1) ELSE filename

\* stem.match(/^([^-]+)-([^_]+)_(.+)-\d+$/): <<prefix, action, rotationPart>>, or null.
\* The prefix ends at the first '-', the action at the first '_' after it, and the
\* greedy (.+) ends at the last '-', which only digits may follow.
matchPattern(stem) ==
    LET i == IndexOf(stem, "-")
        afterPrefix == From(stem, i + 1)
        j == IndexOf(afterPrefix, "_")
        afterAction == From(afterPrefix, j + 1)
        l == LastIndexOf(afterAction, "-")
        sequence == From(afterAction, l + 1)
    IN  IF /\ i > 1 /\ j > 1 /\ l > 1
           /\ sequence # <<>> /\ \A k \in 1..Len(sequence) : sequence[k] \in Digits
        THEN <<SubSeq(stem, 1, i - 1), SubSeq(afterPrefix, 1, j - 1), SubSeq(afterAction, 1, l - 1)>>
        ELSE <<>>

\* parts[1] of stem.split('-'), cut at its first '_'.
fallbackAction(stem) ==
    LET rest == From(stem, IndexOf(stem, "-") + 1)
        i2 == IndexOf(rest, "-")
        part1 == IF i2 > 0 THEN SubSeq(rest, 1, i2 - 1) ELSE rest
        u == IndexOf(part1, "_")
    IN  IF u > 0 THEN SubSeq(part1, 1, u - 1) ELSE part1

parseFilename(filename) ==
    LET stem == stemOf(filename)
        match == matchPattern(stem)
    IN  IF match # <<>>
        THEN [prefix |-> match[1], action |-> match[2],
              baseName |-> match[1] \o <<"-">> \o match[2] \o <<"_">> \o match[3]]
        ELSE IF IndexOf(stem, "-") > 0
             THEN [prefix |-> SubSeq(stem, 1, IndexOf(stem, "-") - 1),
                   action |-> fallbackAction(stem), baseName |-> stem]
             ELSE [prefix |-> stem, action |-> unknown, baseName |-> stem]

\* The scan loop of organizeFiles: fileGroups as the list of its entries in insertion
\* order (Object.entries), each [baseName, files].
RECURSIVE groupFiles(_, _)
groupFiles(entries, fileGroups) ==
    IF entries = <<>> THEN fileGroups
    ELSE LET p == parseFilename(Head(entries))
             info == [filePath |-> Head(entries), prefix |-> p.prefix, action |-> p.action,
                      baseName |-> p.baseName]
             at == {k \in 1..Len(fileGroups) : fileGroups[k].baseName = p.baseName}
         IN  groupFiles(Tail(entries),
                        IF at = {}
                        THEN Append(fileGroups, [baseName |-> p.baseName, files |-> <<info>>])
                        ELSE [k \in 1..Len(fileGroups) |->
                                IF k \in at
                                THEN [fileGroups[k] EXCEPT !.files = Append(@, info)]
                                ELSE fileGroups[k]])

\* path.join of segments that hold no separator and no '.' or '..': the empty ones
\* are dropped.
pathJoin(segments) == SelectSeq(segments, LAMBDA seg : seg # <<>>)

\* baseName.includes('-') ? baseName.split('-').slice(1).join('-') : baseName
actionRotation(baseName) ==
    IF IndexOf(baseName, "-") > 0 THEN From(baseName, IndexOf(baseName, "-") + 1) ELSE baseName

\* The archive createZipArchive writes for a task, below outputPath.
zipPath(task) ==
    pathJoin(<<task.files[1].prefix, task.files[1].action,
               actionRotation(task.baseName) \o <<".", "z", "i", "p">> >>)

\* os.cpus().length of the machine.
Cpus == 1

\* A run: pc is "idle", "failed" (organizeFiles threw), "batch" (awaiting
\* Promise.allSettled), "done" or "crashed" (the process died of an uncaught exception);
\* i is the loop index; state[k] is "waiting", "writing", "fulfilled", "rejected" (by
\* the archive's 'error' event) or "threw" (rejected by an exception of mkdirSync) for
\* zipTasks[k].
NoRun == [pc |-> "idle", zipTasks |-> <<>>, batchSize |-> 0, i |-> 0, state |-> <<>>,
          completedCount |-> 0]

\* An argument of Array.prototype.slice over an array of n elements: a negative
\* index counts from the end, and the result is kept within 0..n.
sliceIndex(x, n) ==
    IF x < 0 THEN (IF n + x > 0 THEN n + x ELSE 0)
    ELSE IF x > n THEN n ELSE x

\* Variant: every remaining task is started at once.
batch_All(run) == {k \in 1..Len(run.zipTasks) : run.i < k}

\* The indices of zipTasks.slice(i, i + batchSize).
batch(run) ==
    LET n == Len(run.zipTasks)
    IN  {k \in 1..n : sliceIndex(run.i, n) < k /\ k <= sliceIndex(run.i + run.batchSize, n)}

\* batch.map(task => createZipArchive(...)): every task of the batch is started; a
\* task whose mkdirSync throws is rejected at once.
startBatch(run, mkdirFails) ==
    [run EXCEPT !.pc = "batch",
                !.state = [k \in 1..Len(run.zipTasks) |->
                              IF k \in batch(run)
                              THEN (IF k \in mkdirFails THEN "threw" ELSE "writing")
                              ELSE run.state[k]]]

\* organizeFiles(sourceDir, outputBaseDir, maxConcurrent) up to its first await.
OrganizeFiles(sourceExists, entries, maxConcurrent) ==
    /\ zipper.pc = "idle"
    /\ LET zipTasks == groupFiles(entries, <<>>)
           limit == IF maxConcurrent = <<>>
                    THEN (IF Cpus + 4 < 32 THEN Cpus + 4 ELSE 32)
                    ELSE maxConcurrent[1]
           run == [NoRun EXCEPT !.zipTasks = zipTasks, !.batchSize = limit,
                                !.state = [k \in 1..Len(zipTasks) |-> "waiting"]]
       IN  IF ~sourceExists THEN zipper' = [NoRun EXCEPT !.pc = "failed"]
           ELSE IF zipTasks = <<>> THEN zipper' = [run EXCEPT !.pc = "done"]
           ELSE \E mkdirFails \in SUBSET batch(run) : zipper' = startBatch(run, mkdirFails)
    /\ UNCHANGED <<app, sessionVars, timerVars, currentImagePath, startCalls, stopCalls,
                   startBtnDisabled, uiAlert, lastCall, procVars, fsVars, now, fnCall, sent,
                   previewShows>>

ZipperFrame ==
    UNCHANGED <<app, sessionVars, timerVars, currentImagePath, startCalls, stopCalls,
                startBtnDisabled, uiAlert, lastCall, procVars, fsVars, now, fnCall, sent,
                previewShows>>

\* output.on('close'): the promise of task k resolves.
ArchiveClosed(k) ==
    /\ zipper.pc = "batch" /\ k \in DOMAIN zipper.state /\ zipper.state[k] = "writing"
    /\ zipper' = [zipper EXCEPT !.state[k] = "fulfilled"]
    /\ ZipperFrame

\* archive.on('error'): the promise of task k rejects.
ArchiveError(k) ==
    /\ zipper.pc = "batch" /\ k \in DOMAIN zipper.state /\ zipper.state[k] = "writing"
    /\ zipper' = [zipper EXCEPT !.state[k] = "rejected"]
    /\ ZipperFrame

\* The write stream of task k emits 'error' (the zip file cannot be created or
\* written).  createZipArchive listens to 'close' only, so the event is thrown as an
\* uncaught exception and the script's process ends.
OutputError(k) ==
    /\ zipper.pc = "batch" /\ k \in DOMAIN zipper.state /\ zipper.state[k] = "writing"
    /\ zipper' = [zipper EXCEPT !.pc = "crashed"]
    /\ ZipperFrame

\* The continuation of await Promise.allSettled: the results are counted and the loop
\* goes on with the next batch or ends.
BatchSettled ==
    /\ zipper.pc = "batch"
    /\ zipper.i > 0 - MaxSpin
    /\ \A k \in batch(zipper) : zipper.state[k] # "writing"
    /\ LET counted == [zipper EXCEPT
                          !.completedCount = @ + Cardinality({k \in batch(zipper) :
                                                                zipper.state[k] = "fulfilled"}),
                          !.i = @ + zipper.batchSize]
       IN  IF counted.i < Len(counted.zipTasks)
           THEN \E mkdirFails \in SUBSET batch(counted) : zipper' = startBatch(counted, mkdirFails)
           ELSE zipper' = [counted EXCEPT !.pc = "done"]
    /\ ZipperFrame

(***************************************************************************)
(* Specification.                                                          *)
(***************************************************************************)
Init ==
    /\ app = "starting"
    /\ isRendering = FALSE
    /\ initialTotalImages = 0
    /\ sessionStartImageCount = 0
    /\ renderStartTime = NULL
    /\ periodicMonitoringHandle = NULL
    /\ fileWatcherHandle = NULL
    /\ currentImagePath = NoPath
    /\ timers = {}
    /\ startCalls = [c \in StartSlots |-> FreeStart]
    /\ stopCalls = [c \in StopSlots |-> FreeStop]
    /\ startBtnDisabled = FALSE
    /\ uiAlert = ""
    /\ dazRunning = 0
    /\ irayRunning = {}
    /\ irayDirExists = FALSE
    /\ dirExists \in {[d \in Dirs |-> d = "d1" /\ b] : b \in BOOLEAN}
    /\ exeExists \in BOOLEAN
    /\ scriptExists \in BOOLEAN
    /\ images = [d \in Dirs |-> <<>>]
    /\ now = 1
    /\ fnCall = NoCall
    /\ zipper = NoRun
    /\ sent = <<>>
    /\ previewShows = "none"
    /\ lastCall = "none"

Next ==
    \/ \E dir \in {"d1", ""} : WindowReady(dir)
    \/ \E dir \in {"d1", ""} : SaveSettings(dir)
    \/ WindowClose
    \/ \E s \in InvalidSettings : UiStartRender(s, TRUE)
    \/ \E s \in ValidSettings(RequestDirs) : \E mkdirOk \in BOOLEAN : UiStartRender(s, mkdirOk)
    \/ \E c \in StartSlots : StartRenderResume(c)
    \/ \E c \in StartSlots : UiStartReply(c)
    \/ UiStopRender
    \/ \E c \in StopSlots : StopKillDaz(c)
    \/ \E c \in StopSlots : StopKillIray1(c)
    \/ \E c \in StopSlots : StopKillIray2(c)
    \/ \E c \in StopSlots : StopAfterWait(c)
    \/ \E c \in StopSlots : UiStopReply(c)
    \/ \E t \in timers : FileWatcherTick(t)
    \/ \E t \in timers : PeriodicTick(t)
    \/ WorkerExit
    \/ IrayStarted

Spec == Init /\ [][Next]_vars

(***************************************************************************)
(* The polling loops over a changing output directory: one session of one  *)
(* request (one worker, shadows on, 4 images expected), tools installed,   *)
(* while entries are written, the directory is removed and the clock       *)
(* advances.                                                               *)
(***************************************************************************)
PollSettings ==
    [subject |-> "subject.duf", animations |-> <<"walk.duf">>, gear |-> <<>>,
     render_shadows |-> TRUE, output_directory |-> "d1", number_of_instances |-> 1]

InitPoll == Init /\ exeExists /\ scriptExists /\ dirExists["d1"]

NextPoll ==
    \/ WindowReady("d1")
    \/ SaveSettings("d1")
    \/ \E shadows \in BOOLEAN : UiStartRender([PollSettings EXCEPT !.render_shadows = shadows], TRUE)
    \/ \E c \in StartSlots : UiStartReply(c)
    \/ \E t \in timers : FileWatcherTick(t)
    \/ \E t \in timers : PeriodicTick(t)
    \/ ImageWritten("d1")
    \/ EntryUnreadable("d1")
    \/ DirRemoved("d1")
    \/ ClockTick

SpecPoll == InitPoll /\ [][NextPoll]_vars

(***************************************************************************)
(* The expected-output calculator called directly, once, on every request  *)
(* of up to MaxPaths animation paths and up to MaxPaths gear paths.        *)
(***************************************************************************)
SubjectPaths == {"", "subject.duf", "broken.duf", "missing.duf", "plain.duf"}
AnimationPaths == {"", " ", "static", "walk.duf", "run.duf", "pose.duf", "broken.duf"}
GearPaths == {"", " ", "hat.duf", "boots.duf"}

PathLists(paths) == UNION {[1..n -> paths] : n \in 0..MaxPaths}

CalculateTotalImages(subject, animations, gear, renderShadows) ==
    /\ fnCall = NoCall
    /\ fnCall' = [fn |-> "calculateTotalImages",
                  args |-> <<subject, animations, gear, renderShadows>>,
                  ret |-> <<calculateTotalImages(subject, animations, gear, renderShadows)>>]
    /\ Send(<<>>) /\ uiAlert' = ""
    /\ UNCHANGED <<app, sessionVars, timerVars, currentImagePath, startCalls, stopCalls,
                   startBtnDisabled, lastCall, procVars, fsVars, now, zipper>>

GetFramesFromAnimationFile(animationFilepath) ==
    /\ fnCall = NoCall
    /\ fnCall' = [fn |-> "getFramesFromAnimationFile", args |-> <<animationFilepath>>,
                  ret |-> <<getFramesFromAnimationFile(animationFilepath)>>]
    /\ Send(<<>>) /\ uiAlert' = ""
    /\ UNCHANGED <<app, sessionVars, timerVars, currentImagePath, startCalls, stopCalls,
                   startBtnDisabled, lastCall, procVars, fsVars, now, zipper>>

InitCalc == Init /\ exeExists /\ scriptExists /\ dirExists["d1"]

NextCalc ==
    \/ \E subject \in SubjectPaths, animations \in PathLists(AnimationPaths),
          gear \in PathLists(GearPaths), renderShadows \in BOOLEAN :
           CalculateTotalImages(subject, animations, gear, renderShadows)
    \/ \E animationFilepath \in AnimationPaths \cup {"missing.duf"} :
           GetFramesFromAnimationFile(animationFilepath)

SpecCalc == InitCalc /\ [][NextCalc]_vars

(***************************************************************************)
(* The calculator called once on gear lists of up to MaxGear entries.      *)
(***************************************************************************)
GearLists == UNION {[1..n -> GearPaths] : n \in 0..MaxGear}

NextGear ==
    \E subject \in {"subject.duf", "plain.duf"}, gear \in GearLists, renderShadows \in BOOLEAN :
        CalculateTotalImages(subject, <<"walk.duf">>, gear, renderShadows)

SpecGear == InitCalc /\ [][NextGear]_vars

(***************************************************************************)
(* The scanner called directly, once, on a directory tree: every listing   *)
(* of up to MaxFiles entries, and long listings around the limits of       *)
(* findNewestImage (maxFiles returned, pruning above 2 * maxFiles).        *)
(***************************************************************************)
SmallEntries == {PngEntry(m) : m \in 1..MaxTime} \cup {NoStatEntry, LockedDirEntry}
SmallListings == UNION {[1..n -> SmallEntries] : n \in 0..MaxFiles}

LongLengths == {maxFiles, maxFiles + 1, 2 * maxFiles + 1, 3 * maxFiles + 2}
StampPatterns == {"ascending", "descending", "equal", "cyclic"}

\* The mtime of the k-th of n files written in the given pattern.
Stamp(pattern, k, n) ==
    CASE pattern = "ascending"  -> k
      [] pattern = "descending" -> n + 1 - k
      [] pattern = "equal"      -> 1
      [] pattern = "cyclic"     -> 1 + (k % 7)

LongListings == {[k \in 1..n |-> PngEntry(Stamp(pattern, k, n))] :
                    n \in LongLengths, pattern \in StampPatterns}

\* The output directory is found with entries in it.
DirectoryFilled(d, entries) ==
    /\ dirExists[d] /\ images[d] = <<>> /\ fnCall = NoCall
    /\ images' = [images EXCEPT ![d] = entries]
    /\ Send(<<>>) /\ uiAlert' = ""
    /\ EnvFrame /\ UNCHANGED <<procVars, irayDirExists, dirExists, exeExists, scriptExists, now>>

FindNewestImage(d) ==
    /\ fnCall = NoCall
    /\ fnCall' = [fn |-> "findNewestImage", args |-> <<d>>, ret |-> findNewestImage(d)]
    /\ Send(<<>>) /\ uiAlert' = ""
    /\ UNCHANGED <<app, sessionVars, timerVars, currentImagePath, startCalls, stopCalls,
                   startBtnDisabled, lastCall, procVars, fsVars, now, zipper>>

CountImagesInDirectory(d) ==
    /\ fnCall = NoCall
    /\ fnCall' = [fn |-> "countImagesInDirectory", args |-> <<d>>,
                  ret |-> <<countImagesInDirectory(d)>>]
    /\ Send(<<>>) /\ uiAlert' = ""
    /\ UNCHANGED <<app, sessionVars, timerVars, currentImagePath, startCalls, stopCalls,
                   startBtnDisabled, lastCall, procVars, fsVars, now, zipper>>

InitScan == Init /\ exeExists /\ scriptExists /\ dirExists["d1"]

NextScan ==
    \/ \E entries \in SmallListings \cup LongListings : DirectoryFilled("d1", entries)
    \/ FindNewestImage("d1")
    \/ CountImagesInDirectory("d1")

SpecScan == InitScan /\ [][NextScan]_vars

(***************************************************************************)
(* A run of the zipper on a source directory: every choice of up to        *)
(* MaxEntries files of Pool, in directory order, and one directory of five *)
(* groups; maxConcurrent null or -1..MaxConcurrent.                        *)
(***************************************************************************)
Pool ==
    << <<"a", "-", "b", "_", "1", "-", "0", "0", "1", ".", "x">>,
       <<"a", "-", "b", "_", "1", "-", "0", "0", "2", ".", "x">>,
       <<"a", "-", "b", "_", "1", ".", "x">>,
       <<"a", "-", "b", "-", "c", ".", "x">>,
       <<"a", "-", "c", "_", "2", "-", "0", "0", "1", ".", "x">>,
       <<"a", "_", "s", "-", "p", "_", "-", "6", ".", "5", "-", "0", "1", "4", ".", "w">>,
       <<"a", "b", ".", "x">>,
       <<"a", "b", ".", "y">>,
       unknown \o <<".", "x">>,
       unknown \o <<"-">> \o unknown \o <<".", "x">> >>

\* The files of Pool at the indices S, in the order of Pool.
Pick(S) ==
    [k \in 1..Cardinality(S) |-> Pool[CHOOSE i \in S : Cardinality({j \in S : j < i}) = k - 1]]

FiveGroups == Pick({1, 2, 4, 5, 6, 7})

SourceDirs ==
    {Pick(S) : S \in {T \in SUBSET (1..Len(Pool)) : Cardinality(T) <= MaxEntries}} \cup {FiveGroups}

ConcurrencyLimits == {<<>>} \cup {<<m>> : m \in (0 - 1)..MaxConcurrent}

InitZip == Init /\ exeExists /\ scriptExists /\ dirExists["d1"]

NextZip ==
    \/ \E sourceExists \in BOOLEAN, entries \in SourceDirs, maxConcurrent \in ConcurrencyLimits :
           OrganizeFiles(sourceExists, entries, maxConcurrent)
    \/ \E k \in DOMAIN zipper.state : ArchiveClosed(k)
    \/ \E k \in DOMAIN zipper.state : ArchiveError(k)
    \/ \E k \in DOMAIN zipper.state : OutputError(k)
    \/ BatchSettled

SpecZip == InitZip /\ [][NextZip]_vars

(***************************************************************************)
(* The two polling loops over a file tree that does not change: both       *)
(* output directories exist and hold images, the user starts, stops and    *)
(* saves settings, and the interval timers keep firing.                    *)
(***************************************************************************)
InitQuiet ==
    /\ app = "starting"
    /\ isRendering = FALSE
    /\ initialTotalImages = 0
    /\ sessionStartImageCount = 0
    /\ renderStartTime = NULL
    /\ periodicMonitoringHandle = NULL
    /\ fileWatcherHandle = NULL
    /\ currentImagePath = NoPath
    /\ timers = {}
    /\ startCalls = [c \in StartSlots |-> FreeStart]
    /\ stopCalls = [c \in StopSlots |-> FreeStop]
    /\ startBtnDisabled = FALSE
    /\ uiAlert = ""
    /\ dazRunning = 0
    /\ irayRunning = {}
    /\ irayDirExists = FALSE
    /\ dirExists = [d \in Dirs |-> TRUE]
    /\ exeExists = TRUE
    /\ scriptExists = TRUE
    /\ images \in {[d \in Dirs |-> IF d = "d1" THEN <<PngEntry(0)>> ELSE e] :
                      e \in {<<>>, <<PngEntry(0)>>}}
    /\ now = 1
    /\ fnCall = NoCall
    /\ zipper = NoRun
    /\ sent = <<>>
    /\ previewShows = "none"
    /\ lastCall = "none"

TimerFires == \E t \in timers : FileWatcherTick(t) \/ PeriodicTick(t)

NextQuiet ==
    \/ \E dir \in Dirs : WindowReady(dir)
    \/ \E dir \in Dirs : SaveSettings(dir)
    \/ \E n \in 1..MaxInstances :
          UiStartRender([PollSettings EXCEPT !.number_of_instances = n], TRUE)
    \/ \E c \in StartSlots : StartRenderResume(c)
    \/ \E c \in StartSlots : UiStartReply(c)
    \/ UiStopRender
    \/ \E c \in StopSlots : StopKillDaz(c)
    \/ \E c \in StopSlots : StopKillIray1(c)
    \/ \E c \in StopSlots : StopKillIray2(c)
    \/ \E c \in StopSlots : StopAfterWait(c)
    \/ \E c \in StopSlots : UiStopReply(c)
    \/ IrayStarted
    \/ TimerFires

\* setInterval: a live timer fires again and again.
SpecQuiet == InitQuiet /\ [][NextQuiet]_vars /\ WF_vars(TimerFires)

(***************************************************************************)
(* Properties of the session controller.                                   *)
(***************************************************************************)
\* A step in which the start-render handler is entered on slot c.
StartInvoked(c) == startCalls[c].pc = "free" /\ startCalls'[c].pc # "free"

\* A step in which the stop-render handler is entered on slot c.
StopInvoked(c) == stopCalls[c].pc = "free" /\ stopCalls'[c].pc # "free"

\* A step of the stop call on slot c itself.
StopStep(c) == StopInProgress(c) /\ stopCalls'[c].pc # stopCalls[c].pc /\ app' # "closed"

\* The step in which the stop call on slot c returns.
StopReturns(c) == StopStep(c) /\ stopCalls'[c].pc = "returned"

PreviewTimers == {t \in timers : t.kind = "preview"}
FileTimers == {t \in timers : t.kind = "file"}

ValidationAlerts == {"Please select a subject file", "Please select at least one animation",
                     "Please select an output directory"}

\* C1: a start entered while the session is Rendering is answered AlreadyRunning and
\* changes none of the session's fields: start time, expected count, baseline count,
\* the launched workers, the progress loop's timer.
C1_AlreadyRunningKeepsSession ==
    [][\A c \in StartSlots :
          (StartInvoked(c) /\ isRendering) =>
              /\ startCalls'[c] = Reply("AlreadyRunning")
              /\ UNCHANGED <<isRendering, renderStartTime, initialTotalImages,
                             sessionStartImageCount, dazRunning, fileWatcherHandle, timers>>]_vars

\* A rejected start is on its way back while the session it met is still there.
C1_Witness ==
    \E c \in StartSlots :
        /\ startCalls[c].result = "AlreadyRunning"
        /\ isRendering /\ initialTotalImages > 0 /\ renderStartTime # NULL

\* C2: the session state changes only Idle -> Rendering -> Stopping -> Idle.
C2_OnlyTheCycle ==
    [][SessionState' # SessionState =>
          <<SessionState, SessionState'>> \in {<<"Idle", "Rendering">>,
                                               <<"Rendering", "Stopping">>,
                                               <<"Stopping", "Idle">>}]_vars

\* C3: a start entered while a stop is in progress is answered AlreadyRunning and
\* launches no worker.
C3_StartDuringStopRejected ==
    [][\A c \in StartSlots :
          (StartInvoked(c) /\ \E d \in StopSlots : StopInProgress(d)) =>
              /\ startCalls'[c].result = "AlreadyRunning"
              /\ dazRunning' = dazRunning]_vars

\* C4: the state becomes Rendering only in a step that has launched a worker.
C4_RenderingAfterFirstWorker ==
    [][(~isRendering /\ isRendering') => dazRunning' > dazRunning]_vars

C6_ValidationDoesNothing ==
    [][\A s \in InvalidSettings :
          UiStartRender(s, TRUE) =>
              /\ uiAlert' \in ValidationAlerts
              /\ SessionState' = SessionState
              /\ UNCHANGED <<sessionVars, startCalls, startBtnDisabled, dirExists, irayDirExists,
                             dazRunning, timerVars>>]_vars

\* The validation alert is up, the controller is idle and the output directory has not
\* been created.
C6_Witness ==
    /\ uiAlert \in ValidationAlerts
    /\ SessionState = "Idle" /\ renderStartTime = NULL
    /\ ~dirExists["d1"] /\ ~irayDirExists /\ dazRunning = 0

\* C7: a stop returns success, and when no start was called since it was entered (it is
\* the first or the second of two consecutive stops) the flag is clear at its return,
\* the state being Idle unless another stop call is still in progress.
C7_StopTwiceIdle ==
    [][\A c \in StopSlots :
          StopReturns(c) =>
              /\ stopCalls'[c].result = "success"
              /\ lastCall \in {"stop", "stopAgain"} =>
                    /\ ~isRendering'
                    /\ (\A d \in StopSlots \ {c} : ~StopInProgress(d)) => SessionState' = "Idle"]_vars

\* The second of two consecutive stops has returned.
C7_Witness ==
    \E c \in StopSlots :
        /\ stopCalls[c].pc = "returned" /\ stopCalls[c].result = "success"
        /\ lastCall = "stopAgain" /\ SessionState = "Idle"

\* C8: no step of a stop entered at Idle (and not overtaken by a later start) terminates
\* a process, removes the working directory, or changes a timer or a session field.
C8_StopAtIdleNoOp ==
    [][\A c \in StopSlots :
          (StopStep(c) /\ stopCalls[c].fromIdle /\ lastCall \in {"stop", "stopAgain"}) =>
              UNCHANGED <<procVars, irayDirExists, timerVars, sessionVars>>]_vars

C10_PreviewLoopIndependent ==
    [][/\ (app' # "closed" /\ (startCalls' # startCalls \/ \E c \in StopSlots : StopInvoked(c) \/ StopStep(c)))
           => (PreviewTimers' = PreviewTimers /\ periodicMonitoringHandle' = periodicMonitoringHandle)
       /\ (app' # "closed" /\ PreviewTimers # {}) => PreviewTimers' # {}]_vars

\* The preview timer is alive while a session renders after an earlier stop.
C10_Witness ==
    /\ isRendering /\ dazRunning > 0
    /\ lastCall = "start" /\ \E c \in StopSlots : stopCalls[c].pc = "returned"
    /\ PreviewTimers # {} /\ periodicMonitoringHandle # NULL

\* A step of the start call on slot c: its entry or its resumption after a launch delay.
StartStep(c) == startCalls'[c] # startCalls[c] /\ startCalls'[c].pc \in {"delay", "replying"}

\* C11: a stop whose cleanup found the working directory still locked after the last
\* retry does not return a plain success.
C11_CleanupFailureReported ==
    \A c \in StopSlots :
        (stopCalls[c].pc = "returned" /\ stopCalls[c].cleanupFailed)
            => stopCalls[c].result # "success"

\* C12: the expected count changes only in the step of the start that opens a session;
\* while the session is Rendering no step changes it.
C12_ExpectedCountWrittenOnce ==
    [][/\ (isRendering /\ isRendering') => initialTotalImages' = initialTotalImages
       /\ initialTotalImages' # initialTotalImages
              => (~isRendering /\ isRendering' /\ \E c \in StartSlots : StartInvoked(c))]_vars

\* A start has been rejected while the session renders with its progress loop running.
C12_Witness ==
    /\ isRendering /\ FileTimers # {} /\ initialTotalImages > 0
    /\ \E c \in StartSlots : startCalls[c].result = "AlreadyRunning"

\* C13: every step of a successful start with worker count n launches exactly one
\* worker; the call waits after a launch exactly when launches remain, the n-th launch
\* is followed by no wait, and the progress loop is installed in the step of the n-th
\* launch and in no earlier step of the call.
C13_StaggeredLaunch ==
    [][\A c \in StartSlots :
          (StartStep(c) /\ startCalls'[c].result \in {"", "ok"} /\ startCalls'[c].n # NaN) =>
              LET launchedBefore == IF startCalls[c].pc = "delay" THEN startCalls[c].i ELSE 0
                  n == startCalls'[c].n
              IN  /\ dazRunning' = dazRunning + 1
                  /\ startCalls'[c].pc = "delay" =>
                        /\ launchedBefore + 1 < n
                        /\ startCalls'[c].i = launchedBefore + 1
                        /\ fileWatcherHandle' = fileWatcherHandle /\ FileTimers' = FileTimers
                  /\ startCalls'[c].pc = "replying" =>
                        /\ launchedBefore + 1 = n
                        /\ fileWatcherHandle' # NULL
                        /\ \E t \in FileTimers' : t.id = fileWatcherHandle']_vars

\* A start with more than one worker has launched all of them and installed the loop.
C13_Witness ==
    \E c \in StartSlots :
        /\ startCalls[c].pc = "replying" /\ startCalls[c].result = "ok"
        /\ startCalls[c].n > 1 /\ dazRunning = startCalls[c].n
        /\ fileWatcherHandle # NULL

(***************************************************************************)
(* Progress samples and preview notifications.                             *)
(***************************************************************************)
\* The positions of the render-progress samples among the messages of the last step.
ProgressSamples == {k \in 1..Len(sent) : sent[k].type = "render-progress"}

\* The images of a directory modified at or after the start of the session.
Qualifying(d) ==
    Cardinality({k \in 1..Len(listing(d)) :
                    listing(d)[k].kind = "png" /\ listing(d)[k].mtime >= renderStartTime})

C15_RemainingCountsSessionOnly ==
    \A k \in ProgressSamples :
        sent[k].remaining =
            Max0(sent[k].totalImages - (sent[k].renderedCount - sessionStartImageCount))

\* A step in which the preview loop polls directory d: its timer callback, or the
\* immediate check when the loop is started.
PreviewPoll(d) ==
    \/ \E t \in PreviewTimers : t.dir = d /\ PeriodicTick(t)
    \/ WindowReady(d)
    \/ SaveSettings(d)

NoticeSent(msgs, type) == \E k \in 1..Len(msgs) : msgs[k].type = type

FramesOf(a) == IF a = "static" \/ trim(a) = "" THEN 1 ELSE getFramesFromAnimationFile(trim(a))

RECURSIVE SumFrames(_)
SumFrames(anims) == IF anims = <<>> THEN 0 ELSE FramesOf(Head(anims)) + SumFrames(Tail(anims))

\* The gear multiplier as calculateTotalImages takes it from the gear list.
GearCountOf(gear) ==
    IF gear = <<>> \/ trim(gear[1]) = "" THEN 1
    ELSE Cardinality({k \in 1..Len(gear) : trim(gear[k]) # ""})

\* angles x (sum of the frames of the animations) x gearCount; an empty animation list
\* is one static render.
ProductOf(subject, animations, gear) ==
    getAnglesFromSubjectFile(subject)
        * SumFrames(IF animations = <<>> \/ animations[1] = "" THEN <<"static">> ELSE animations)
        * GearCountOf(gear)

\* C20: calculateTotalImages returns angles x (sum over the animations of the frames per
\* animation) x gearCount, twice that with the shadow flag: the result with the flag is
\* exactly 2 x the result of the same request without it.
C20_ProductDoubledByShadows ==
    fnCall.fn = "calculateTotalImages" =>
        LET a == fnCall.args
            product == ProductOf(a[1], a[2], a[3])
        IN  /\ fnCall.ret[1] = IF a[4] THEN 2 * product ELSE product
            /\ a[4] => fnCall.ret[1] = 2 * calculateTotalImages(a[1], a[2], a[3], FALSE)
            /\ ~a[4] => 2 * fnCall.ret[1] = calculateTotalImages(a[1], a[2], a[3], TRUE)

\* A call with the shadow flag, two animations of different frame counts and two gear
\* files returned twice the product.
C20_Witness ==
    /\ fnCall.fn = "calculateTotalImages"
    /\ fnCall.args = <<"subject.duf", <<"walk.duf", "run.duf">>, <<"hat.duf", "boots.duf">>, TRUE>>
    /\ fnCall.ret = <<20>>

(***************************************************************************)
(* Scanner.                                                                *)
(***************************************************************************)
\* The mtime of the file behind a path returned by the scanner.
MtimeOf(p) == images[p[1]][p[2]].mtime

\* The readable .png files of a directory.
PngCount(d) == Cardinality({k \in 1..Len(listing(d)) : listing(d)[k].kind = "png"})

\* C18 as stated: findNewestImage returns at most 100 entries, sorted strictly
\* descending by modification time.
C18_AtMost100StrictlyDescending ==
    fnCall.fn = "findNewestImage" =>
        /\ Len(fnCall.ret) <= 100
        /\ \A k \in 1..(Len(fnCall.ret) - 1) : MtimeOf(fnCall.ret[k]) > MtimeOf(fnCall.ret[k + 1])

\* C18 amended: findNewestImage returns at most 100 entries, no entry twice, and no
\* entry is older than the entry after it (files of equal modification time follow each
\* other).
C18_AtMost100NewestFirst ==
    fnCall.fn = "findNewestImage" =>
        /\ Len(fnCall.ret) <= 100
        /\ \A k \in 1..(Len(fnCall.ret) - 1) : MtimeOf(fnCall.ret[k]) >= MtimeOf(fnCall.ret[k + 1])
        /\ \A j, k \in 1..Len(fnCall.ret) : fnCall.ret[j] = fnCall.ret[k] => j = k

\* findNewestImage returned exactly 100 of more than 200 files.
C18_Witness ==
    /\ fnCall.fn = "findNewestImage"
    /\ Len(fnCall.ret) = 100
    /\ PngCount(fnCall.args[1]) > 2 * maxFiles

\* C19: an entry that cannot be read is skipped and the walk goes on: newest mode returns
\* every readable .png of the directory (up to its limit of 100), count mode counts every
\* readable .png.
C19_UnreadableEntrySkipped ==
    /\ fnCall.fn = "findNewestImage" =>
            Len(fnCall.ret) = (IF PngCount(fnCall.args[1]) < maxFiles
                               THEN PngCount(fnCall.args[1]) ELSE maxFiles)
    /\ fnCall.fn = "countImagesInDirectory" => fnCall.ret[1] = PngCount(fnCall.args[1])

\* The largest keys length among the animations of a descriptor, 1 when none has keys
\* or the file cannot be read.
LargestKeys(p) ==
    LET f == DescriptorStore(p)
        lengths == {f.keys[k] : k \in 1..Len(f.keys)} \ {-1}
    IN  IF p = "" \/ ~f.exists \/ ~f.parses \/ ~f.hasScene \/ lengths = {} THEN 1
        ELSE CHOOSE m \in lengths : \A x \in lengths : x <= m

\* C21: the frame count of an animation descriptor is the largest keyframe-array length
\* found in it, 1 if none is found or the file is unreadable.
C21_LargestKeyframeArray ==
    fnCall.fn = "getFramesFromAnimationFile" => fnCall.ret[1] = LargestKeys(fnCall.args[1])

\* The number of non-empty paths of a gear list, 1 when there is none.
NonEmptyGear(gear) ==
    LET n == Cardinality({k \in 1..Len(gear) : trim(gear[k]) # ""})
    IN  IF n = 0 THEN 1 ELSE n

Unusable(p) == p = "" \/ ~DescriptorStore(p).exists \/ ~DescriptorStore(p).parses

AnglesOrDefault(subject) ==
    IF Unusable(subject) \/ DescriptorStore(subject).angles <= 0 THEN 16
    ELSE DescriptorStore(subject).angles

FramesOrDefault(a) ==
    IF a = "static" \/ trim(a) = "" \/ Unusable(trim(a)) THEN 1 ELSE getFramesFromAnimationFile(trim(a))

RECURSIVE SumFramesOrDefault(_)
SumFramesOrDefault(anims) ==
    IF anims = <<>> THEN 0 ELSE FramesOrDefault(Head(anims)) + SumFramesOrDefault(Tail(anims))

\* C23: calculateTotalImages always returns a count: an unusable subject counts 16
\* angles, an unusable animation 1 frame, and every other descriptor of the request is
\* still counted; a subject without the angle attribute, one single-keyframe animation
\* and no gear give 16 without shadows and 32 with shadows.
C23_DefaultsNeverAbort ==
    fnCall.fn = "calculateTotalImages" =>
        LET a == fnCall.args
            anims == IF a[2] = <<>> \/ a[2][1] = "" THEN <<"static">> ELSE a[2]
        IN  /\ fnCall.ret[1] > 0
            /\ fnCall.ret[1] = AnglesOrDefault(a[1]) * SumFramesOrDefault(anims) * GearCountOf(a[3])
                                    * (IF a[4] THEN 2 ELSE 1)
            /\ (a[1] = "plain.duf" /\ a[2] = <<"pose.duf">> /\ a[3] = <<>>)
                    => fnCall.ret[1] = IF a[4] THEN 32 ELSE 16

\* A request with a malformed subject and a malformed animation before a good one
\* returned 16 x (1 + 2).
C23_Witness ==
    /\ fnCall.fn = "calculateTotalImages"
    /\ fnCall.args = <<"broken.duf", <<"broken.duf", "walk.duf">>, <<>>, FALSE>>
    /\ fnCall.ret = <<48>>

(***************************************************************************)
(* Archive groups and the batch pipeline.                                  *)
(***************************************************************************)
Scanned == zipper.pc \in {"batch", "done", "crashed"}

\* The file records of group k, and the files of the source directory.
Members(k) == {zipper.zipTasks[k].files[j] : j \in 1..Len(zipper.zipTasks[k].files)}
FileInfos == UNION {Members(k) : k \in 1..Len(zipper.zipTasks)}
GroupOf(info) == CHOOSE k \in 1..Len(zipper.zipTasks) : info \in Members(k)

Strict(filename) == matchPattern(stemOf(filename)) # <<>>

\* The key of a file: (prefix, action, rotation) when the strict grammar matches, the
\* fallback category of its own stem otherwise.
Key(filename) ==
    IF Strict(filename)
    THEN <<"strict">> \o matchPattern(stemOf(filename))
    ELSE <<"fallback", stemOf(filename)>>

\* C24: two files of the source directory are in the same archive group if and only if
\* their parsed keys are identical.
C24_SameGroupIffSameKey ==
    Scanned => \A f, g \in FileInfos :
                  GroupOf(f) = GroupOf(g) <=> Key(f.filePath) = Key(g.filePath)

\* C25: a file whose name does not match the strict grammar is the only member of its
\* group, and the group is keyed by the file's stem.
C25_FallbackGroupSingleMember ==
    Scanned => \A f \in FileInfos :
                  ~Strict(f.filePath) =>
                      /\ Members(GroupOf(f)) = {f}
                      /\ zipper.zipTasks[GroupOf(f)].baseName = stemOf(f.filePath)

\* The remainder of a stem after its first '-', up to the first '_' of the remainder.
RemainderAction(stem) ==
    LET rest == From(stem, IndexOf(stem, "-") + 1)
        u == IndexOf(rest, "_")
    IN  IF u > 0 THEN SubSeq(rest, 1, u - 1) ELSE rest

\* C26: for a name with a '-' that fails the strict grammar, the prefix is the text
\* before the first '-' and the action is the whole remainder up to its first '_'.
C26_FallbackSplitsOnFirstDash ==
    Scanned => \A f \in FileInfos :
                  LET stem == stemOf(f.filePath)
                  IN  (~Strict(f.filePath) /\ IndexOf(stem, "-") > 0) =>
                          /\ f.prefix = SubSeq(stem, 1, IndexOf(stem, "-") - 1)
                          /\ f.action = RemainderAction(stem)

Writing == {k \in DOMAIN zipper.state : zipper.state[k] = "writing"}

\* C27: while the pipeline runs with a limit that is a count (0 or more), at most
\* batchSize (maxConcurrent) archive writes are in flight; they belong to the
\* current batch, every task of the earlier batches has settled and no task of a
\* later batch has been started.
C27_InFlightWithinBatch ==
    (zipper.pc = "batch" /\ zipper.batchSize >= 0) =>
        /\ Cardinality(Writing) <= zipper.batchSize
        /\ Writing \subseteq batch(zipper)
        /\ \A k \in DOMAIN zipper.state :
              /\ k <= zipper.i => zipper.state[k] \in {"fulfilled", "rejected", "threw"}
              /\ k > zipper.i + zipper.batchSize => zipper.state[k] = "waiting"

\* Five groups with maxConcurrent = 2: the second batch has both its writes in flight.
C27_Witness ==
    /\ zipper.pc = "batch" /\ Len(zipper.zipTasks) = 5 /\ zipper.batchSize = 2
    /\ zipper.i = 2 /\ Writing = {3, 4}

\* C28: a failing archive write neither stops the pipeline nor the other tasks: the run
\* does not die, and it ends with every group attempted and a completed count equal to
\* the number of archives written.
C28_FailureStaysWithItsGroup ==
    /\ zipper.pc # "crashed"
    /\ zipper.pc = "done" =>
          /\ \A k \in DOMAIN zipper.state : zipper.state[k] \in {"fulfilled", "rejected", "threw"}
          /\ zipper.completedCount =
                Cardinality({k \in DOMAIN zipper.state : zipper.state[k] = "fulfilled"})

(***************************************************************************)
(* Order of the steps of a stop.                                           *)
(***************************************************************************)
StopPc(c) == stopCalls[c].pc

\* C29: a stop runs its steps in one fixed order.  Its first step cancels the
\* progress sampling loop and terminates nothing; the worker processes are
\* terminated next, before any process of the Iray service; the two service
\* processes follow, and up to there the service directory is untouched; the
\* directory is removed only by the step that follows both termination steps,
\* and the call returns in that same step, after the removal attempt.
\* (A call that is pending when the application quits takes no further step.)
C29_StopFixedOrder ==
    [][app' # "closed" => \A c \in StopSlots :
          /\ (StopPc(c) = "free" /\ StopPc(c)' # "free")
                => /\ StopPc(c)' = "killDaz"
                   /\ fileWatcherHandle' = NULL
                   /\ \A t \in timers' : t.id # fileWatcherHandle
                   /\ UNCHANGED <<dazRunning, irayRunning, irayDirExists>>
          /\ (StopPc(c) = "killDaz" /\ StopPc(c)' # "killDaz")
                => /\ StopPc(c)' = "killIray1"
                   /\ dazRunning' = 0
                   /\ UNCHANGED <<irayRunning, irayDirExists>>
          /\ (StopPc(c) = "killIray1" /\ StopPc(c)' # "killIray1")
                => /\ StopPc(c)' = "killIray2"
                   /\ IrayProcessNames[1] \notin irayRunning'
                   /\ UNCHANGED irayDirExists
          /\ (StopPc(c) = "killIray2" /\ StopPc(c)' # "killIray2")
                => /\ StopPc(c)' \in {"wait", "returned"}
                   /\ IrayProcessNames[2] \notin irayRunning'
                   /\ StopPc(c)' = "wait" => UNCHANGED irayDirExists
          /\ (StopPc(c) = "wait" /\ StopPc(c)' # "wait") => StopPc(c)' = "returned"
          /\ (StopPc(c) # "returned" /\ StopPc(c)' = "returned")
                => /\ StopPc(c) \in {"killIray2", "wait"}
                   /\ ~irayDirExists' \/ stopCalls'[c].cleanupFailed
                   /\ stopCalls'[c].result = "success"
          /\ (irayDirExists /\ ~irayDirExists')
                => \E d \in StopSlots : StopPc(d) \in {"killIray2", "wait"} /\ StopPc(d)' = "returned"
      ]_vars

\* A stop of a started session that has terminated the workers and both service
\* processes and waits before it removes the directory.
C29_Witness ==
    \E c \in StopSlots :
        /\ StopPc(c) = "wait"
        /\ stopCalls[c].killedCount = 2
        /\ ~stopCalls[c].fromIdle
        /\ fileWatcherHandle = NULL
        /\ dazRunning = 0 /\ irayRunning = {}
        /\ irayDirExists



(***************************************************************************)
(* The trailing window behind the estimated completion time.               *)
(***************************************************************************)
\* The at most avgWindow most recent images of d modified at or after the start of
\* the session, newest first.
Window(d) ==
    LET pngs == SelectSeq(listing(d), LAMBDA f : f.kind = "png" /\ f.mtime >= renderStartTime)
    IN  Slice(SortDesc(pngs), avgWindow)

AllReadable(d) == \A k \in 1..Len(listing(d)) : listing(d)[k].kind = "png"

\* C30: a progress sample that reports a time, taken over a directory whose entries
\* are all readable images, reports now + remaining * (newest - oldest) / (n - 1),
\* where n is the size of the window of the at most 10 most recent images of the
\* session; that is the mean of all n - 1 consecutive differences of the window.
C30_EtaIsMeanOfWindow ==
    \A k \in ProgressSamples : \A t \in FileTimers :
        LET e == sent[k].estimatedCompletion
            w == Window(t.dir)
            n == Len(w)
        IN  (e.kind = "time" /\ AllReadable(t.dir))
                => /\ n >= 2
                   /\ e.num * (n - 1)
                        = e.den * (now * (n - 1) + sent[k].remaining * (w[1].mtime - w[n].mtime))



(***************************************************************************)
(* The end of a session.                                                   *)
(***************************************************************************)
\* C31: after a progress sample that reports nothing remaining, the Start Render
\* button is enabled and the controller is not Rendering, so that a new start is
\* accepted without a stop in between.
C31_CompleteReenablesStart ==
    \A k \in ProgressSamples :
        sent[k].remaining = 0 => ~startBtnDisabled /\ ~AlreadyRunning



\* A start call has failed and its reply is on the way; nothing was called since.
StartFailed(c) ==
    /\ startCalls[c].pc = "replying"
    /\ startCalls[c].result \in {"ExecutableNotFound", "Exception"}
    /\ lastCall = "start"

\* C32: when a start has failed with ExecutableNotFound or with an exception of its
\* preparation, the controller is Idle: the guard that rejects a start with
\* AlreadyRunning is off, so that the next start is not rejected by it.
C32_FailedStartLeavesIdle ==
    \A c \in StartSlots : StartFailed(c) => SessionState = "Idle" /\ ~AlreadyRunning



\* A start call is between two launches while the controller is Idle: a stop was
\* called during the staggered launch and has returned.
StoppedWhileLaunching(c) == startCalls[c].pc = "delay" /\ SessionState = "Idle"

\* C33: a start whose staggered launch was overtaken by a stop that has returned
\* launches no further worker and installs no progress timer.
C33_StoppedStartLaunchesNothing ==
    [][\A c \in StartSlots :
          StoppedWhileLaunching(c) =>
              /\ dazRunning' <= dazRunning
              /\ \A t \in timers' : t.kind # "file"]_vars



(***************************************************************************)
(* Quiescence of the preview notifications.                                *)
(***************************************************************************)
Quiet == \A k \in 1..Len(sent) : sent[k].type # "image-updated"

\* C34: over a file tree that does not change, once the starts, stops and settings
\* saves are over and only the timers fire, the loops eventually send no
\* 'image-updated' any more.
C34_NotificationsQuiesce == <>[][TimerFires]_vars => <>[]Quiet



(***************************************************************************)
(* Live timers.                                                            *)
(***************************************************************************)
\* C35: at most one timer of the progress loop and at most one timer of the preview
\* loop are alive, and a live timer is the one its handle variable refers to: no
\* orphaned timer keeps polling.
C35_OneTimerPerLoop ==
    /\ Cardinality(FileTimers) <= 1
    /\ Cardinality(PreviewTimers) <= 1
    /\ \A t \in FileTimers : t.id = fileWatcherHandle
    /\ \A t \in PreviewTimers : t.id = periodicMonitoringHandle

\* Both loops were started again while a stop was in progress (the preview loop by a
\* settings save, the progress loop by a start), and one timer of each is alive.
C35_Witness ==
    \E c \in StopSlots :
        /\ StopInProgress(c)
        /\ stopCalls[c].restarted = {"file", "preview"}
        /\ FileTimers # {} /\ PreviewTimers # {}
        /\ \E t \in PreviewTimers : t.dir = "d2"



(***************************************************************************)
(* Ranges of the progress sample.                                          *)
(***************************************************************************)
\* C36: in every progress sample the percent complete is between 0 and 100 and
\* remaining is between 0 and the expected count.
C36_PercentAndRemainingInRange ==
    \A k \in ProgressSamples :
        /\ sent[k].percentDen > 0
        /\ 0 <= sent[k].percentNum /\ sent[k].percentNum <= 100 * sent[k].percentDen
        /\ 0 <= sent[k].remaining /\ sent[k].remaining <= sent[k].totalImages



(***************************************************************************)
(* Pruning during the walk of findNewestImage.                             *)
(***************************************************************************)
\* All images the walk visits, sorted newest first and cut to maxFiles.
SortAllThenCut(d) == Slice(SortDesc(readdir(d)), maxFiles)

\* C37: the modification times of the files findNewestImage returns are those of the
\* first 100 of all visited images sorted newest first: cutting the buffer to 100
\* whenever it exceeds 200 discards none of the 100 newest files.
C37_PruningKeepsNewest ==
    fnCall.fn = "findNewestImage" =>
        LET full == SortAllThenCut(fnCall.args[1])
        IN  /\ Len(fnCall.ret) = Len(full)
            /\ \A k \in 1..Len(full) : MtimeOf(fnCall.ret[k]) = full[k].mtime

\* findNewestImage has walked more than 300 images of which the last visited is the
\* newest: the buffer was cut twice before the newest file was seen.
C37_Witness ==
    /\ fnCall.fn = "findNewestImage"
    /\ LET es == listing(fnCall.args[1])
       IN  /\ Len(es) > 3 * maxFiles
           /\ \A k \in 1..(Len(es) - 1) : es[k].kind = "png" /\ es[k].mtime < es[Len(es)].mtime
           /\ fnCall.ret[1] = <<fnCall.args[1], Len(es)>>



(***************************************************************************)
(* Destination paths of the archives.                                      *)
(***************************************************************************)
\* C38: two distinct archive groups of a run never have the same destination path.
C38_DistinctGroupsDistinctPaths ==
    Scanned => \A j, k \in 1..Len(zipper.zipTasks) :
                  j # k => zipPath(zipper.zipTasks[j]) # zipPath(zipper.zipTasks[k])



(***************************************************************************)
(* Termination of the batch loop.                                          *)
(***************************************************************************)
Attempted(k) == zipper.state[k] # "waiting"

\* C39: for every maxConcurrent the run ends having attempted every group: each
\* iteration of the batch loop awaits at least one group, started by that iteration
\* (so the loop is over after at most one iteration per group), and a run that is
\* over has attempted every group.
C39_EveryGroupAttemptedThenDone ==
    /\ zipper.pc = "batch" => batch(zipper) # {}
    /\ zipper.pc = "done" => \A k \in DOMAIN zipper.state : Attempted(k)

====
